---- MODULE Spec2Model ----
(***************************************************************************)
(* Llama3Generator (goldenverba/components/generation/Llama3Generator.py): *)
(* the asynchronous generator generate_stream, driven by its caller one    *)
(* resume at a time, and the pure prompt assembly prepare_messages.        *)
(*                                                                         *)
(* Python strings are TLA+ strings; str.join and the f-string template are *)
(* computed by concatenation.  The Hugging Face backend (BitsAndBytes,     *)
(* tokenizer, model, pipeline, inference) is an external library: each of  *)
(* its steps either returns or raises, nondeterministically.               *)
(***************************************************************************)
EXTENDS Integers, Sequences, FiniteSets, TLC

VARIABLES
    env,            \* os.environ: a partial map from key to string
    generator,      \* the instance fields set by __init__
    pc,             \* where the generator object of the current call stands
    queries,        \* argument of the current call
    context,        \* argument of the current call
    conversation,   \* argument of the current call: {} is None, {c} is the value c
    locals,         \* access_token, model_name, assistant_response, once assigned
    messages,       \* the local `messages` of generate_stream (<<>>: unassigned)
    events,         \* the events the caller has received in the current call
    trace,          \* the steps the generator body has executed in the current call
    invoked_with,   \* the first argument of every pipe(...) invocation of the call
    exception,      \* the backend step that raised in the current call, or "none"
    raised,         \* TRUE once an exception has propagated to the caller
    resumes         \* number of __anext__ calls made on the current generator

vars == <<env, generator, pc, queries, context, conversation, locals, messages,
          events, trace, invoked_with, exception, raised, resumes>>

callState == <<pc, locals, messages, events, trace, invoked_with, exception,
               raised, resumes>>

arguments == <<queries, context, conversation>>

-----------------------------------------------------------------------------
(* Bounds of the model *)

\* longest queries / context / conversation given to prepare_messages directly
MaxLen == 2

\* longest queries / context / conversation given to generate_stream
MaxCallLen == 1

\* most __anext__ calls followed on one generator object
MaxResumes == 5

-----------------------------------------------------------------------------
(* Values *)

SeqsUpTo(S, n) == UNION {[1..k -> S] : k \in 0..n}

Range(s) == {s[i] : i \in 1..Len(s)}

EnvKeys == {"HUGGINGFACE_TOKEN", "LLAMA3_MODEL_ID"}

\* a key of os.environ is unset, set to the empty string, or set to a value
EnvValues == {"", "v"}

Environments == UNION {[D -> EnvValues] : D \in SUBSET EnvKeys}

\* Generator.system_message is set by the base class constructor
SystemMessages == {"You are a RAG chatbot.", ""}

QueryStrings == {"What is X?", "Why?"}

ContextStrings == {"X is a thing.", "Y"}

ConversationMessages == [type : {"user", "assistant"}, content : {"hi", "Paris"}]

CallQueryStrings == {"What is X?"}

CallContextStrings == {"X is a thing."}

CallConversationMessages == [type : {"assistant"}, content : {"hi"}]

\* what the text-generation pipeline may answer
Answers == {"Paris", ""}

-----------------------------------------------------------------------------
(* prepare_messages *)

RECURSIVE join(_, _)
\* str.join: the elements of strs with sep between neighbours
join(sep, strs) ==
    IF Len(strs) = 0 THEN ""
    ELSE IF Len(strs) = 1 THEN strs[1]
    ELSE strs[1] \o sep \o join(sep, Tail(strs))

\* the history inserted right after the system message, newest first
AppendConversationReversed(msgs, conv) ==
    msgs \o [i \in 1..Len(conv) |->
                [role |-> conv[Len(conv) + 1 - i].type,
                 content |-> conv[Len(conv) + 1 - i].content]]

RECURSIVE AppendConversation(_, _)
\* for message in conversation: messages.append({role: message.type, ...})
AppendConversation(msgs, conv) ==
    IF conv = <<>> THEN msgs
    ELSE AppendConversation(
             Append(msgs, [role |-> Head(conv).type, content |-> Head(conv).content]),
             Tail(conv))

\* the two joined texts put in each other's place
UserPromptSwapped(user_context, query) ==
    "With this provided context: '" \o query
        \o "' Please answer this query: '" \o user_context \o "'"

UserPrompt(user_context, query) ==
    "With this provided context: '" \o user_context
        \o "' Please answer this query: '" \o query \o "'"

\* the list started empty instead of with the system message
prepare_messagesNoSystem(q, c, conv) ==
    Append(AppendConversation(<<>>, conv),
           [role |-> "user", content |-> UserPrompt(join(" ", c), join(" ", q))])

prepare_messages(q, c, conv) ==
    LET initial == <<[role |-> "system", content |-> generator.system_message]>>
        withHistory == AppendConversation(initial, conv)
        query == join(" ", q)
        user_context == join(" ", c)
    IN  Append(withHistory, [role |-> "user", content |-> UserPrompt(user_context, query)])

-----------------------------------------------------------------------------
(* generate_stream *)

\* os.environ.get(key, default)
environ_get(key, default) == IF key \in DOMAIN env THEN env[key] ELSE default

MissingTokenEvent == [message |-> "Missing Hugging Face Token", finish_reason |-> "stop"]

MissingModelEvent == [message |-> "Missing Llama3 Model", finish_reason |-> "stop"]

\* the answer marked as the end of the stream
AnswerEventStop(assistant_response) ==
    [message |-> assistant_response, finish_reason |-> "stop"]

AnswerEvent(assistant_response) == [message |-> assistant_response, finish_reason |-> ""]

\* the pipeline invoked before the messages are assembled
BackendStepsInvokeFirst ==
    << "BitsAndBytesConfig",
       "AutoTokenizer.from_pretrained",
       "AutoModelForCausalLM.from_pretrained",
       "pipeline",
       "terminators",
       "pipe",
       "prepare_messages" >>

\* the statements from the end of the configuration checks to the answer's yield
BackendSteps ==
    << "BitsAndBytesConfig",
       "AutoTokenizer.from_pretrained",
       "AutoModelForCausalLM.from_pretrained",
       "pipeline",
       "terminators",
       "prepare_messages",
       "pipe" >>

\* the steps that call into the external library and so may raise
RaisingSteps == {i \in 1..Len(BackendSteps) : BackendSteps[i] # "prepare_messages"}

\* one run of the backend: the step that raises (0: none) and the answer text
BackendBehaviours == [raises : {0} \cup RaisingSteps, answer : Answers]

ReadStep(key) == "os.environ.get:" \o key

\* the generator suspends at a yield, handing ev to the caller
Suspend(at, ev, l, tr) ==
    /\ pc' = at
    /\ events' = Append(events, ev)
    /\ locals' = l
    /\ trace' = trace \o tr
    /\ UNCHANGED <<messages, invoked_with, exception, raised>>

\* the failure caught and reported as a terminal event instead of re-raised
SwallowAndStop ==
    /\ pc' = "yield_answer"
    /\ raised' = FALSE
    /\ events' = Append(events, [message |-> "error", finish_reason |-> "stop"])

\* `except Exception: raise`, and no handler at all around the construction:
\* the exception leaves the generator, which is finished from then on
Propagate ==
    /\ pc' = "raised"
    /\ raised' = TRUE
    /\ events' = events

\* lines 50-98: construct the backend, assemble the prompt, invoke, yield the answer
Backend(l, tr) ==
    \E b \in BackendBehaviours :
        LET ran == IF b.raises = 0 THEN BackendSteps
                   ELSE SubSeq(BackendSteps, 1, b.raises)
            conv == IF conversation = {} THEN <<>>
                    ELSE CHOOSE c \in conversation : TRUE
            msgs == prepare_messages(queries, context, conv)
        IN  /\ trace' = trace \o tr \o ran
            /\ locals' = IF b.raises = 0
                         THEN ("assistant_response" :> b.answer) @@ l ELSE l
            /\ messages' = IF "prepare_messages" \in Range(ran) THEN msgs ELSE messages
            /\ invoked_with' = IF "pipe" \in Range(ran)
                               THEN Append(invoked_with, msgs) ELSE invoked_with
            /\ IF b.raises = 0
               THEN /\ pc' = "yield_answer"
                    /\ events' = Append(events, AnswerEvent(b.answer))
                    /\ UNCHANGED <<exception, raised>>
               ELSE /\ exception' = BackendSteps[b.raises]
                    /\ Propagate

\* the model identifier looked up under a key that requires_env does not declare
CheckModelUndeclaredKey(l, tr) ==
    LET model_name == environ_get("LLAMA3_MODEL", "")
        l2 == ("model_name" :> model_name) @@ l
        tr2 == Append(tr, ReadStep("LLAMA3_MODEL"))
    IN  IF model_name = ""
        THEN Suspend("yield_model", MissingModelEvent, l2, tr2)
        ELSE Backend(l2, tr2)

\* lines 41-46, and on from there when the model identifier is not empty
CheckModel(l, tr) ==
    LET model_name == environ_get("LLAMA3_MODEL_ID", "")
        l2 == ("model_name" :> model_name) @@ l
        tr2 == Append(tr, ReadStep("LLAMA3_MODEL_ID"))
    IN  IF model_name = ""
        THEN Suspend("yield_model", MissingModelEvent, l2, tr2)
        ELSE Backend(l2, tr2)

\* the token checked after the model identifier instead of before it
CheckTokenAfterModel(access_token) ==
    LET model_name == environ_get("LLAMA3_MODEL_ID", "")
        l1 == ("model_name" :> model_name) @@ locals
        l2 == ("access_token" :> access_token) @@ l1
        tr1 == <<ReadStep("LLAMA3_MODEL_ID")>>
        tr2 == Append(tr1, ReadStep("HUGGINGFACE_TOKEN"))
    IN  IF model_name = ""
        THEN Suspend("yield_model", MissingModelEvent, l1, tr1)
        ELSE IF access_token = ""
        THEN Suspend("yield_token", MissingTokenEvent, l2, tr2)
        ELSE Backend(l2, tr2)

\* lines 35-40, and on from there when the token is not empty
CheckToken(access_token) ==
    LET l1 == ("access_token" :> access_token) @@ locals
        tr1 == <<ReadStep("HUGGINGFACE_TOKEN")>>
    IN  IF access_token = ""
        THEN Suspend("yield_token", MissingTokenEvent, l1, tr1)
        ELSE CheckModel(l1, tr1)

CanResume == resumes < MaxResumes

\* a plain function that validates the token eagerly and then hands out the stream
generate_streamEager(q, c, conv) ==
    /\ pc' = "created"
    /\ queries' = q
    /\ context' = c
    /\ conversation' = conv
    /\ locals' = ("access_token" :> environ_get("HUGGINGFACE_TOKEN", ""))
    /\ messages' = <<>>
    /\ events' = <<>>
    /\ trace' = <<ReadStep("HUGGINGFACE_TOKEN")>>
    /\ invoked_with' = <<>>
    /\ exception' = "none"
    /\ raised' = FALSE
    /\ resumes' = 0
    /\ UNCHANGED <<env, generator>>

\* calling the async generator function creates the generator; no body code runs
generate_stream(q, c, conv) ==
    /\ pc' = "created"
    /\ queries' = q
    /\ context' = c
    /\ conversation' = conv
    /\ locals' = <<>>
    /\ messages' = <<>>
    /\ events' = <<>>
    /\ trace' = <<>>
    /\ invoked_with' = <<>>
    /\ exception' = "none"
    /\ raised' = FALSE
    /\ resumes' = 0
    /\ UNCHANGED <<env, generator>>

Call ==
    \E q \in SeqsUpTo(CallQueryStrings, MaxCallLen),
       c \in SeqsUpTo(CallContextStrings, MaxCallLen),
       conv \in {{}} \cup {{h} : h \in SeqsUpTo(CallConversationMessages, MaxCallLen)} :
        generate_stream(q, c, conv)

\* the token memoised on the instance by the first call that reads it
ResumeFromStartCached ==
    LET access_token == IF "access_token" \in DOMAIN generator
                        THEN generator["access_token"]
                        ELSE environ_get("HUGGINGFACE_TOKEN", "")
    IN  /\ pc = "created"
        /\ CanResume
        /\ resumes' = resumes + 1
        /\ CheckToken(access_token)
        /\ generator' = ("access_token" :> access_token) @@ generator
        /\ UNCHANGED <<env, arguments>>

\* first __anext__: the body runs from its first line to the first yield or raise
ResumeFromStart ==
    /\ pc = "created"
    /\ CanResume
    /\ resumes' = resumes + 1
    /\ CheckToken(environ_get("HUGGINGFACE_TOKEN", ""))
    /\ UNCHANGED <<env, generator, arguments>>

\* __anext__ after the "Missing Hugging Face Token" event: the body goes on at line 41
ResumeAfterTokenError ==
    /\ pc = "yield_token"
    /\ CanResume
    /\ resumes' = resumes + 1
    /\ CheckModel(locals, <<>>)
    /\ UNCHANGED <<env, generator, arguments>>

\* __anext__ after the "Missing Llama3 Model" event: the body goes on at line 50
ResumeAfterModelError ==
    /\ pc = "yield_model"
    /\ CanResume
    /\ resumes' = resumes + 1
    /\ Backend(locals, <<>>)
    /\ UNCHANGED <<env, generator, arguments>>

\* the assembled messages kept on the instance when the call completes
ResumeAfterAnswerKeepsMessages ==
    /\ pc = "yield_answer"
    /\ CanResume
    /\ resumes' = resumes + 1
    /\ pc' = "done"
    /\ generator' = ("messages" :> messages) @@ generator
    /\ UNCHANGED <<env, arguments, locals, messages, events, trace,
                   invoked_with, exception, raised>>

\* __anext__ after the answer event: the body falls off its end (StopAsyncIteration)
ResumeAfterAnswer ==
    /\ pc = "yield_answer"
    /\ CanResume
    /\ resumes' = resumes + 1
    /\ pc' = "done"
    /\ UNCHANGED <<env, generator, arguments, locals, messages, events, trace,
                   invoked_with, exception, raised>>

\* a finished generator that runs its body again from the first line
ResumeFinishedRestart ==
    /\ pc \in {"done", "raised"}
    /\ CanResume
    /\ resumes' = resumes + 1
    /\ CheckToken(environ_get("HUGGINGFACE_TOKEN", ""))
    /\ UNCHANGED <<env, generator, arguments>>

\* __anext__ on a generator that has finished: StopAsyncIteration, no body code runs
ResumeFinished ==
    /\ pc \in {"done", "raised"}
    /\ CanResume
    /\ resumes' = resumes + 1
    /\ UNCHANGED <<env, generator, arguments, pc, locals, messages, events, trace,
                   invoked_with, exception, raised>>

\* another actor of the process sets or unsets configuration keys
SetEnv ==
    /\ \E e \in Environments \ {env} : env' = e
    /\ UNCHANGED <<generator, arguments, callState>>

\* Llama3Generator(): __init__ sets the capability metadata
Llama3Generator(system_message) ==
    [ name |-> "Llama3",
      description |-> "Generator using a local running Llama3 Model from Hugging Face",
      requires_env |-> <<"HUGGINGFACE_TOKEN", "LLAMA3_MODEL_ID">>,
      streamable |-> TRUE,
      context_window |-> 8000,
      system_message |-> system_message ]

NoCall ==
    /\ pc = "none"
    /\ queries = <<>>
    /\ context = <<>>
    /\ conversation = {}
    /\ locals = <<>>
    /\ messages = <<>>
    /\ events = <<>>
    /\ trace = <<>>
    /\ invoked_with = <<>>
    /\ exception = "none"
    /\ raised = FALSE
    /\ resumes = 0

Init ==
    /\ env \in Environments
    /\ \E sm \in SystemMessages : generator = Llama3Generator(sm)
    /\ NoCall

Next ==
    \/ Call
    \/ ResumeFromStart
    \/ ResumeAfterTokenError
    \/ ResumeAfterModelError
    \/ ResumeAfterAnswer
    \/ ResumeFinished
    \/ SetEnv

Spec == Init /\ [][Next]_vars

-----------------------------------------------------------------------------
(* A caller that consumes every stream to its end: it starts a call only when  *)
(* no stream is open, and it keeps resuming the open one.                      *)

CallAfterEnd ==
    /\ pc \in {"none", "done", "raised"}
    /\ Call

NextLive ==
    \/ CallAfterEnd
    \/ ResumeFromStart
    \/ ResumeAfterTokenError
    \/ ResumeAfterModelError
    \/ ResumeAfterAnswer
    \/ ResumeFinished
    \/ SetEnv

KeepsResuming ==
    WF_vars(ResumeFromStart \/ ResumeAfterTokenError
                \/ ResumeAfterModelError \/ ResumeAfterAnswer)

SpecLive == Init /\ [][NextLive]_vars /\ KeepsResuming

-----------------------------------------------------------------------------
(* prepare_messages called on its own, on inputs of every shape up to MaxLen *)

InitPM ==
    /\ env \in {<<>>}
    /\ \E sm \in SystemMessages : generator = Llama3Generator(sm)
    /\ pc = "none"
    /\ queries \in SeqsUpTo(QueryStrings, MaxLen)
    /\ context \in SeqsUpTo(ContextStrings, MaxLen)
    /\ conversation \in {{h} : h \in SeqsUpTo(ConversationMessages, MaxLen)}
    /\ locals = <<>>
    /\ messages = <<>>
    /\ events = <<>>
    /\ trace = <<>>
    /\ invoked_with = <<>>
    /\ exception = "none"
    /\ raised = FALSE
    /\ resumes = 0

PrepareMessagesCall ==
    /\ messages = <<>>
    /\ messages' = prepare_messages(queries, context, CHOOSE h \in conversation : TRUE)
    /\ UNCHANGED <<env, generator, arguments, pc, locals, events, trace,
                   invoked_with, exception, raised, resumes>>

NextPM == PrepareMessagesCall

SpecPM == InitPM /\ [][NextPM]_vars

-----------------------------------------------------------------------------
(* Properties of generate_stream *)

Assigned(name) == name \in DOMAIN locals

\* the call read an absent or empty HUGGINGFACE_TOKEN
TokenMissing == Assigned("access_token") /\ locals["access_token"] = ""

\* the call read an absent or empty LLAMA3_MODEL_ID
ModelMissing == Assigned("model_name") /\ locals["model_name"] = ""

\* the call read both required keys and found both non-empty
KeysPresent ==
    /\ Assigned("access_token") /\ locals["access_token"] # ""
    /\ Assigned("model_name") /\ locals["model_name"] # ""

\* the stream has reached its end: exhausted, or aborted by an exception
Ended == pc \in {"done", "raised"}

\* the steps of the body that construct or invoke the backend
BackendCalls == Range(BackendSteps) \ {"prepare_messages"}

Occurrences(step) == Cardinality({i \in 1..Len(trace) : trace[i] = step})

\* C1: when HUGGINGFACE_TOKEN is absent or empty, the caller that consumes the
\* stream to its end has received exactly one event, the "Missing Hugging Face
\* Token" stop event, and that event is yielded before any backend step.
C1_MissingTokenSingleEvent ==
    /\ (TokenMissing /\ pc = "yield_token") =>
           /\ events = <<MissingTokenEvent>>
           /\ Range(trace) \cap BackendCalls = {}
    /\ (TokenMissing /\ Ended) => events = <<MissingTokenEvent>>

\* C2: when HUGGINGFACE_TOKEN is non-empty and LLAMA3_MODEL_ID is absent or
\* empty, the caller that consumes the stream to its end has received exactly
\* one event, the "Missing Llama3 Model" stop event.
C2_MissingModelSingleEvent ==
    (Assigned("access_token") /\ ~TokenMissing /\ ModelMissing /\ Ended) =>
        events = <<MissingModelEvent>>

\* C3: with both keys present and a backend that returns the answer text A, the
\* stream yields exactly the one event {message: A, finish_reason: ""} and then
\* ends normally; no "stop" event is yielded on the success path.
C3_SuccessSingleAnswerEvent ==
    (KeysPresent /\ Assigned("assistant_response")) =>
        /\ events = <<[message |-> locals["assistant_response"], finish_reason |-> ""]>>
        /\ pc \in {"yield_answer", "done"}
        /\ ~raised

C3_Witness ==
    /\ KeysPresent
    /\ pc = "done"
    /\ events = <<[message |-> "Paris", finish_reason |-> ""]>>

\* C4: with both keys present, when a backend construction or invocation step
\* raises, the failure reaches the caller, no event has been yielded in the
\* call, and no backend step has been run a second time.
C4_BackendFailurePropagates ==
    (KeysPresent /\ exception # "none") =>
        /\ raised
        /\ pc = "raised"
        /\ events = <<>>
        /\ \A step \in BackendCalls : Occurrences(step) <= 1
        /\ Len(invoked_with) <= 1

C4_Witness ==
    /\ KeysPresent
    /\ exception = "pipe"
    /\ raised
    /\ Len(invoked_with) = 1

\* C5: an event with finish_reason "stop" is the last event of its stream.
C5_StopIsLast ==
    \A i \in 1..Len(events) :
        events[i].finish_reason = "stop" => i = Len(events)

\* C6: when a required key is absent or empty, the caller never observes a raised
\* error: the stop event is the only thing it sees.
C6_ConfigErrorNeverRaises ==
    (TokenMissing \/ ModelMissing) =>
        /\ ~raised
        /\ \A i \in 1..Len(events) : events[i].finish_reason = "stop"

\* C10, helper: what os.environ holds for key in the environment e ("" when unset)
Held(e, key) == IF key \in DOMAIN e THEN e[key] ELSE ""

\* C10: no step of generate_stream writes the environment; the value a call
\* assigns to access_token / model_name is the one the environment holds at that
\* step, the call yields the matching error event exactly when that value is
\* empty, and a new call starts with nothing read.
C10_EnvReadAtCallTime ==
    [][ /\ (resumes' # resumes \/ pc' # pc) => env' = env
        /\ pc' = "created" => locals' = <<>>
        /\ ("access_token" \notin DOMAIN locals /\ "access_token" \in DOMAIN locals') =>
               /\ locals'["access_token"] = Held(env, "HUGGINGFACE_TOKEN")
               /\ (pc' = "yield_token") <=> (Held(env, "HUGGINGFACE_TOKEN") = "")
        /\ ("model_name" \notin DOMAIN locals /\ "model_name" \in DOMAIN locals') =>
               /\ locals'["model_name"] = Held(env, "LLAMA3_MODEL_ID")
               /\ (pc' = "yield_model") <=> (Held(env, "LLAMA3_MODEL_ID") = "")
      ]_vars

\* the environment was changed after the call read it: the call's decision stands
\* on the value held at the read, and the environment is as the other actor left it
C10_Witness ==
    /\ pc = "yield_token"
    /\ TokenMissing
    /\ Held(env, "HUGGINGFACE_TOKEN") = "v"

-----------------------------------------------------------------------------
(* Properties of prepare_messages *)

\* the conversation argument of the call
TheConversation == IF conversation = {} THEN <<>> ELSE CHOOSE h \in conversation : TRUE

\* prepare_messages has returned
Assembled == messages # <<>>

\* C7: the result has length 2 + |conversation|, starts with the system message
\* (content: the system preamble) and ends with a message of role "user".
C7_AssemblyShape ==
    Assembled =>
        /\ Len(messages) = 2 + Len(TheConversation)
        /\ messages[1].role = "system"
        /\ messages[1].content = generator.system_message
        /\ messages[Len(messages)].role = "user"

C7_Witness ==
    /\ Assembled
    /\ Len(TheConversation) = 2
    /\ Len(messages) = 4
    /\ TheConversation[2].type = "assistant"

\* C8: elements 2 .. length-1 of the result are the conversation, message by
\* message, in order, with role and content unchanged.
C8_HistoryVerbatim ==
    Assembled =>
        /\ Len(messages) - 2 = Len(TheConversation)
        /\ \A i \in 1..Len(TheConversation) :
               /\ messages[i + 1].role = TheConversation[i].type
               /\ messages[i + 1].content = TheConversation[i].content

C8_Witness ==
    /\ Assembled
    /\ Len(TheConversation) = 2
    /\ TheConversation[1] # TheConversation[2]
    /\ messages[2].content = TheConversation[1].content

RECURSIVE SpaceSeparated(_)
\* C9, helper: the strings of strs with one space between neighbours
SpaceSeparated(strs) ==
    IF strs = <<>> THEN ""
    ELSE IF Len(strs) = 1 THEN strs[1]
    ELSE SpaceSeparated(SubSeq(strs, 1, Len(strs) - 1)) \o " " \o strs[Len(strs)]

\* C9: the content of the last message is the template around the context
\* passages joined by single spaces and the queries joined by single spaces;
\* empty sequences give empty texts.
C9_TemplateContent ==
    Assembled =>
        LET content == messages[Len(messages)].content
        IN  /\ content = "With this provided context: '" \o SpaceSeparated(context)
                            \o "' Please answer this query: '"
                            \o SpaceSeparated(queries) \o "'"
            /\ (queries = <<>> /\ context = <<>>) =>
                   content = "With this provided context: '' Please answer this query: ''"
            /\ (queries = <<"What is X?">> /\ context = <<"X is a thing.">>) =>
                   content = "With this provided context: 'X is a thing.' Please answer this query: 'What is X?'"
            /\ (queries = <<"What is X?", "Why?">> /\ context = <<"Y", "X is a thing.">>) =>
                   content = "With this provided context: 'Y X is a thing.' Please answer this query: 'What is X? Why?'"

C9_Witness ==
    /\ Assembled
    /\ queries = <<"What is X?", "Why?">>
    /\ context = <<"Y", "X is a thing.">>

-----------------------------------------------------------------------------
(* Configuration surface and instance state *)

\* the configuration reads among the executed steps
ConfigReads == Range(trace) \ Range(BackendSteps)

DeclaredKeys == Range(generator.requires_env)

C12_InstanceNotMutated ==
    [][ /\ generator' = generator
        /\ generator' = Llama3Generator(generator.system_message)
        /\ pc' = "created" =>
               (messages' = <<>> /\ locals' = <<>> /\ invoked_with' = <<>>)
      ]_vars

\* a call has run to completion on the success path and the instance is as built
C12_Witness ==
    /\ pc = "done"
    /\ KeysPresent
    /\ Assembled
    /\ DOMAIN generator = {"name", "description", "requires_env", "streamable",
                           "context_window", "system_message"}
    /\ generator.context_window = 8000

\* C13: a call that has emitted a configuration-error event never afterwards
\* enters backend construction or invocation and never reaches the answer event
\* or the propagated failure: its only path is error event, then end.
C13_ConfigErrorPathEnds ==
    (TokenMissing \/ ModelMissing) =>
        /\ Range(trace) \cap BackendCalls = {}
        /\ pc \notin {"yield_answer", "raised"}
        /\ ~Assigned("assistant_response")

-----------------------------------------------------------------------------
(* The caller drives the generator *)

\* C14: creating the stream reads nothing and runs no step; the body's state
\* (steps run, events, locals, position) changes only in a step that is a resume,
\* and a resume hands over at most one event; while the generator is suspended at
\* a configuration-error event and is not resumed, no backend step has happened.
C14_ProgressOnlyOnResume ==
    [][ /\ pc' = "created" => (trace' = <<>> /\ events' = <<>> /\ locals' = <<>>)
        /\ (pc' # "created" /\ resumes' = resumes) =>
               UNCHANGED <<pc, trace, events, locals, messages, invoked_with,
                           exception, raised>>
        /\ (pc' # "created" /\ resumes' # resumes) =>
               /\ resumes' = resumes + 1
               /\ Len(events') <= Len(events) + 1
               /\ (Len(events') = Len(events) + 1) =>
                      pc' \in {"yield_token", "yield_model", "yield_answer"}
        /\ pc \in {"yield_token", "yield_model"} =>
               Range(trace) \cap BackendCalls = {}
      ]_vars

\* the caller stopped after the error event while another actor went on changing
\* the environment: still no backend step in the call
C14_Witness ==
    /\ pc = "yield_model"
    /\ resumes = 1
    /\ events = <<MissingModelEvent>>
    /\ Held(env, "LLAMA3_MODEL_ID") = "v"
    /\ Range(trace) \cap BackendCalls = {}

\* the most events one call can yield: two configuration errors and the answer
MostEvents == Len(<<MissingTokenEvent, MissingModelEvent, AnswerEvent("")>>)

\* C15: under a caller that keeps resuming, every call reaches its end
\* (exhaustion or propagated failure) having yielded a bounded number of events;
\* and a resume of an ended generator yields no event, runs no step and leaves
\* it ended.
C15_FiniteNonRestartable ==
    /\ [](pc = "created" => <>Ended)
    /\ [](Len(events) <= MostEvents)
    /\ [][ (Ended /\ pc' # "created") =>
               (pc' = pc /\ events' = events /\ trace' = trace
                    /\ invoked_with' = invoked_with) ]_vars

\* an exhausted generator resumed once more, after the longest stream there is
C15_Witness ==
    /\ pc = "done"
    /\ Len(events) = MostEvents
    /\ resumes = Len(events) + 2

-----------------------------------------------------------------------------
(* Order of the steps within one call *)

\* the steps named are all in the trace, the first before the second
Precedes(first, second) ==
    \E i, j \in 1..Len(trace) : i < j /\ trace[i] = first /\ trace[j] = second

\* C16: prepare_messages runs only after both keys have been checked, the
\* pipeline is invoked only after prepare_messages has run, exactly once and with
\* the very sequence prepare_messages returned for the call's arguments, and the
\* answer event is yielded only after the invocation.
C16_StepOrder ==
    /\ "prepare_messages" \in Range(trace) =>
           /\ Precedes(ReadStep("HUGGINGFACE_TOKEN"), ReadStep("LLAMA3_MODEL_ID"))
           /\ Precedes(ReadStep("LLAMA3_MODEL_ID"), "prepare_messages")
           /\ Assembled
    /\ "pipe" \in Range(trace) =>
           /\ Precedes("prepare_messages", "pipe")
           /\ invoked_with = <<messages>>
           /\ Len(messages) = 2 + Len(TheConversation)
           /\ messages[Len(messages)].content =
                  "With this provided context: '" \o SpaceSeparated(context)
                      \o "' Please answer this query: '" \o SpaceSeparated(queries) \o "'"
    /\ "pipe" \notin Range(trace) => invoked_with = <<>>
    /\ Assigned("assistant_response") =>
           /\ trace[Len(trace)] = "pipe"
           /\ events[Len(events)] = AnswerEvent(locals["assistant_response"])

C16_Witness ==
    /\ pc = "yield_answer"
    /\ Len(invoked_with) = 1
    /\ Len(invoked_with[1]) = 3
    /\ invoked_with[1][2] = [role |-> "assistant", content |-> "hi"]

\* C17: the step that reads LLAMA3_MODEL_ID is the step that read
\* HUGGINGFACE_TOKEN: the generator is never suspended, and so no other actor
\* ever runs, between the two reads.
C17_SingleSnapshot ==
    [][ ("model_name" \notin DOMAIN locals /\ "model_name" \in DOMAIN locals') =>
            "access_token" \notin DOMAIN locals ]_vars

\* C18: whenever the "Missing Llama3 Model" event has been yielded, the token had
\* been read and checked before the model identifier was read; and a stream
\* holding both error events holds the missing-token event first.
C18_TokenCheckedFirst ==
    /\ MissingModelEvent \in Range(events) =>
           /\ Assigned("access_token")
           /\ Precedes(ReadStep("HUGGINGFACE_TOKEN"), ReadStep("LLAMA3_MODEL_ID"))
    /\ Assigned("model_name") => Assigned("access_token")
    /\ \A i, j \in 1..Len(events) :
           (events[i] = MissingTokenEvent /\ events[j] = MissingModelEvent) => i < j

C18_Witness ==
    /\ pc = "yield_model"
    /\ events = <<MissingTokenEvent, MissingModelEvent>>

====
